---- MODULE Spec2Model ----
(***************************************************************************)
(* FalseFile: the relay (signaling server, src/server/index.ts) and the    *)
(* client session (WebRTCManager, src/unnamed/part_000) as state machines. *)
(***************************************************************************)
EXTENDS Integers, Sequences, FiniteSets, TLC

(* ------------------------------ bounds -------------------------------- *)
\* socket ids the relay can see at once
NSock == 3
\* room codes generateRoomCode can draw (the code draws from 900000)
NCodes == 2
\* undelivered messages per socket and direction
MaxQueue == 2
\* requests the clients of the relay send in one run
MaxReq == 3
\* ICE candidates the two peer connections gather and signal in one run
MaxCand == 3
\* joinRoom calls on one session
MaxJoins == 2
\* lost connections, expired timers and connectivity failures in one run
MaxFail == 1
\* createOffer calls, and tokens the QR scanner delivers, per session
MaxCalls == 2
\* sendFile calls, and string messages of the peer other than metadata, in
\* one run
MaxSends == 2
\* characters of the SDP of a descriptor
MaxSdp == 2
\* frames (one metadata message and the chunks) of the largest file, and
\* messages of one run together
MaxFrames == 67

Sock == 1..NSock
Codes == 1..NCodes
None == 0

VARIABLES
    rooms,      \* relay: the room table, code -> [host, guest]
    members,    \* relay: socket.io room membership, code -> set of sockets
    conns,      \* relay: the sockets currently connected
    closed,     \* the socket ids that have disconnected (an id is never reused)
    toServer,   \* socket -> FIFO of client-to-relay events
    toClient,   \* socket -> FIFO of relay-to-client events and acks
    joinLog,    \* history: per live room, the answers join-room has given
    freed,      \* history: the codes of the rooms a disconnect has deleted
    nreq,       \* history: the number of requests sent so far
    nfail,      \* history: the number of failures so far
    codec,      \* a descriptor, its offline token and what the token decodes to
    xfer,       \* the data channel of a connected pair: sender, buffer, receiver
    sess        \* session -> the WebRTCManager, its peer connection and its caller

relayVars == <<rooms, members, conns, closed, toServer, toClient, joinLog, freed>>
vars == <<rooms, members, conns, closed, toServer, toClient, joinLog, freed, nreq, nfail, codec, xfer, sess>>

(* ----------------------------- sessions ------------------------------- *)
\* HostFlow's manager talks to the relay over socket 1, JoinFlow's over socket 2
HostId == 1
GuestId == 2
Sess == {HostId, GuestId}
Peer(s) == IF s = HostId THEN GuestId ELSE HostId

\* new WebRTCManager(...): the fields of the class, the state of its
\* RTCPeerConnection and data channel, the promises and timers of its pending
\* calls, and (history) what it has reported and handed to the connection
NewSession ==
    [roomCode |-> None, isHost |-> FALSE, socket |-> "none", dataChannel |-> [by |-> "none", n |-> 0],
     pendingCandidates |-> <<>>,
     call |-> "none", callCode |-> None, njoin |-> 0, timers |-> {},
     unresolved |-> {}, joining |-> FALSE, started |-> FALSE,
     sig |-> "stable", local |-> "none", remote |-> "none", conn |-> "new",
     chain |-> <<>>, ncand |-> 0, dc |-> "none", nrecv |-> 0,
     status |-> "none", ended |-> FALSE, afterEnd |-> {}, afterJoinFail |-> {},
     applied |-> <<>>, nLocal |-> 0, nRemote |-> 0, nChan |-> 0,
     joinFailed |-> FALSE, queued |-> {}, emit |-> <<>>,
     step |-> "input", gathering |-> "new", waiters |-> <<>>, token |-> <<>>,
     nOffer |-> 0, nScan |-> 0, outcomes |-> {}, nDecodeError |-> 0,
     nDisconnect |-> 0, nApplyFailed |-> 0]

\* this.onStatusChange(status)
Ending == {"disconnected", "failed"}
Live == {"connecting", "connected"}

\* onStatusChange(status); ended, afterEnd and afterJoinFail keep what the
\* caller has been told so far
Report(st, status) ==
    [st EXCEPT !.status = status,
               !.ended = @ \/ status \in Ending,
               !.afterEnd = IF st.ended /\ status \in Live THEN @ \cup {status} ELSE @,
               !.afterJoinFail = IF st.joinFailed /\ status \in Live
                                 THEN @ \cup {status} ELSE @]
Emit(st, m) ==
    IF st.socket = "open" THEN [st EXCEPT !.emit = Append(@, m)] ELSE st

SignalMsg(st, data) == [type |-> "signal", roomCode |-> st.roomCode, data |-> data]

\* a call of an RTCPeerConnection method: queued on the connection's
\* operations chain; the caller's await resumes at k when it settles
Call(st, op, arg, k, i) ==
    [st EXCEPT !.chain = Append(@, [op |-> op, arg |-> arg, k |-> k, i |-> i])]

\* this.dataChannel = this.peerConnection.createDataChannel(...);
\* this.setupDataChannel(this.dataChannel)
CreateChannel(st) ==
    [st EXCEPT !.nChan = @ + 1, !.dataChannel = [by |-> "local", n |-> st.nChan + 1],
               !.dc = "connecting"]

\* setupDataChannel(event.channel), from ondatachannel
setupDataChannel(st, channel) ==
    [st EXCEPT !.dataChannel = channel, !.dc = "connecting", !.nrecv = @ + 1]

\* the for-of loop over this.pendingCandidates, from index i, and what follows it
DrainPending(st, k, i) ==
    IF i <= Len(st.pendingCandidates)
    THEN Call(st, "addIce", st.pendingCandidates[i], k, i + 1)
    ELSE LET st1 == [st EXCEPT !.pendingCandidates = <<>>]
         IN  IF k = "offer:drain"
             THEN Call(st1, "createAnswer", None, "offer:setLocal", 0)
             ELSE st1

\* socket.on('signal'), up to its first await
OnSignal(st, data) ==
    IF data.type = "offer" THEN Call(st, "sRD", "offer", "offer:drain", 1)
    ELSE IF data.type = "answer" THEN Call(st, "sRD", "answer", "answer:drain", 1)
    ELSE IF data.type = "ice-candidate"
    THEN IF st.remote # "none"
         THEN Call(st, "addIce", data.candidate, "done", 0)
         ELSE [st EXCEPT !.pendingCandidates = Append(@, data.candidate),
                         !.queued = @ \cup {data.candidate.n}]
    ELSE st

\* a guest-joined handler that creates the channel and stops there
OnGuestJoinedNoOffer(st) == CreateChannel(st)
\* socket.on('guest-joined'), up to its first await
OnGuestJoined(st) == Call(CreateChannel(st), "createOffer", None, "gj:setLocal", 0)

\* this.peerConnection.close(): the connection and every channel of it are
\* closed, and the calls still on its operations chain never settle
ClosePc(st) ==
    [st EXCEPT !.sig = "closed", !.conn = "closed", !.chain = <<>>,
               !.dc = IF @ = "none" THEN "none" ELSE "closed"]

\* a disconnect() that calls this.socket.disconnect() on a socket that may
\* not exist: the call throws and the rest of the method does not run
disconnectUnguarded(st) ==
    IF st.socket = "none" THEN st
    ELSE LET st1 == [st EXCEPT !.socket = "closed"]
             st2 == IF st1.dataChannel.by = "none" THEN st1
                    ELSE [st1 EXCEPT !.dc = "closed"]
         IN  ClosePc(st2)

\* disconnect(): this.socket?.disconnect(); this.dataChannel?.close();
\* this.peerConnection.close()
disconnect(st) ==
    LET st1 == IF st.socket = "none" THEN st ELSE [st EXCEPT !.socket = "closed"]
        st2 == IF st1.dataChannel.by = "none" THEN st1
               ELSE [st1 EXCEPT !.dc = "closed"]
    IN  ClosePc(st2)

(* offline tokens: a string is the sequence of its characters, a byte an     *)
(* integer in 0..255, a base64 text the sequence of its digits 0..63 with 64  *)
(* for the padding character                                                  *)
\* the characters a session description is drawn from: a letter, the two
\* characters JSON escapes with a backslash, a line end, a non-ASCII letter
SdpChars == {"v", "\"", "\\", "\n", "é"}
\* the code point of a character
Code(c) ==
    CASE c = "\n" -> 10  [] c = "\"" -> 34 [] c = "," -> 44  [] c = ":" -> 58
      [] c = "\\" -> 92  [] c = "a" -> 97  [] c = "d" -> 100 [] c = "e" -> 101
      [] c = "f" -> 102  [] c = "n" -> 110 [] c = "o" -> 111 [] c = "p" -> 112
      [] c = "r" -> 114  [] c = "s" -> 115 [] c = "t" -> 116 [] c = "v" -> 118
      [] c = "w" -> 119  [] c = "y" -> 121 [] c = "{" -> 123 [] c = "}" -> 125
      [] c = "é" -> 233
Chars == {"\n", "\"", ",", ":", "\\", "a", "d", "e", "f", "n", "o", "p", "r", "s",
          "t", "v", "w", "y", "{", "}", "é"}

Offer == <<"o", "f", "f", "e", "r">>
Answer == <<"a", "n", "s", "w", "e", "r">>
NoDescriptor == [type |-> <<>>, sdp |-> <<>>]
Thrown == [ok |-> FALSE, value |-> <<>>]

StartsWith(t, p) == Len(t) >= Len(p) /\ SubSeq(t, 1, Len(p)) = p
Drop(t, n) == SubSeq(t, n + 1, Len(t))

\* a string literal's body with nothing escaped
QuoteRaw(str) == str
RECURSIVE Quote(_)
\* JSON.stringify of a string, between its quotes: the quote, the backslash and
\* the line end are written as escapes
Quote(str) ==
    IF str = <<>> THEN <<>>
    ELSE LET c == Head(str)
         IN  (IF c = "\"" THEN <<"\\", "\"">>
              ELSE IF c = "\\" THEN <<"\\", "\\">>
              ELSE IF c = "\n" THEN <<"\\", "n">>
              ELSE <<c>>) \o Quote(Tail(str))

TypeKey == <<"{", "\"", "t", "y", "p", "e", "\"", ":", "\"">>
SdpKey == <<"\"", ",", "\"", "s", "d", "p", "\"", ":", "\"">>
\* JSON.stringify(data) of {type, sdp}
JSONstringify(data) ==
    TypeKey \o Quote(data.type) \o SdpKey \o Quote(data.sdp) \o <<"\"", "}">>

RECURSIVE ReadString(_)
\* JSON.parse inside a string literal: the value up to the closing quote and
\* the text after it; a raw line end and an unknown escape are syntax errors
ReadString(t) ==
    LET bad == [ok |-> FALSE, value |-> <<>>, rest |-> <<>>]
        more(c, rest) == LET r == ReadString(rest)
                         IN  IF r.ok THEN [r EXCEPT !.value = <<c>> \o @] ELSE bad
    IN  IF t = <<>> \/ Head(t) = "\n" THEN bad
        ELSE IF Head(t) = "\"" THEN [ok |-> TRUE, value |-> <<>>, rest |-> Tail(t)]
        ELSE IF Head(t) # "\\" THEN more(Head(t), Tail(t))
        ELSE IF Len(t) < 2 THEN bad
        ELSE IF t[2] = "n" THEN more("\n", Drop(t, 2))
        ELSE IF t[2] \in {"\"", "\\"} THEN more(t[2], Drop(t, 2))
        ELSE bad

\* JSON.parse(text) of the text of an object {type, sdp}
JSONparseObject(t) ==
    LET bad == [ok |-> FALSE, value |-> NoDescriptor]
    IN  IF ~StartsWith(t, TypeKey) THEN bad
        ELSE LET r1 == ReadString(Drop(t, Len(TypeKey)))
             IN  IF ~r1.ok \/ ~StartsWith(<<"\"">> \o r1.rest, SdpKey) THEN bad
                 ELSE LET r2 == ReadString(Drop(r1.rest, Len(SdpKey) - 1))
                      IN  IF ~r2.ok \/ r2.rest # <<"}">> THEN bad
                          ELSE [ok |-> TRUE, value |-> [type |-> r1.value, sdp |-> r2.value]]

RECURSIVE Utf8(_)
\* the UTF-8 bytes of a string (pako's string2buf)
Utf8(str) ==
    IF str = <<>> THEN <<>>
    ELSE LET n == Code(Head(str))
         IN  (IF n < 128 THEN <<n>> ELSE <<192 + (n \div 64), 128 + (n % 64)>>)
             \o Utf8(Tail(str))

CharOf(n) == IF \E c \in Chars : Code(c) = n
             THEN <<CHOOSE c \in Chars : Code(c) = n>> ELSE <<>>

RECURSIVE Utf8Decode(_)
\* the string of UTF-8 bytes (pako's buf2string), for the characters above
Utf8Decode(b) ==
    IF b = <<>> THEN [ok |-> TRUE, value |-> <<>>]
    ELSE LET one  == b[1] < 128
             two  == b[1] \in 192..223 /\ Len(b) >= 2 /\ b[2] \in 128..191
             n    == IF one THEN b[1] ELSE (b[1] - 192) * 64 + (b[2] - 128)
             rest == Utf8Decode(Drop(b, IF one THEN 1 ELSE 2))
         IN  IF ~(one \/ two) \/ CharOf(n) = <<>> \/ ~rest.ok THEN Thrown
             ELSE [ok |-> TRUE, value |-> CharOf(n) \o rest.value]

RECURSIVE Adler(_, _, _)
\* the Adler-32 sums of zlib
Adler(b, lo, hi) ==
    IF b = <<>> THEN <<lo, hi>>
    ELSE Adler(Tail(b), (lo + Head(b)) % 65521, (hi + lo + Head(b)) % 65521)
Trailer(b) ==
    LET sum == Adler(b, 1, 0)
    IN  <<sum[2] \div 256, sum[2] % 256, sum[1] \div 256, sum[1] % 256>>

\* pako.deflate: a zlib stream; written with one stored block, since the
\* compression changes the bytes of the stream and not what inflate returns
Deflate(b) ==
    <<120, 1, 1, Len(b) % 256, Len(b) \div 256, 255 - (Len(b) % 256), 255 - (Len(b) \div 256)>>
        \o b \o Trailer(b)

\* pako.inflate: it throws unless the bytes are a zlib stream
Inflate(z) ==
    IF Len(z) < 11 \/ SubSeq(z, 1, 3) # <<120, 1, 1>> THEN Thrown
    ELSE LET n == z[4] + 256 * z[5]
             b == SubSeq(z, 8, Len(z) - 4)
         IN  IF z[6] # 255 - z[4] \/ z[7] # 255 - z[5] \/ Len(b) # n
                \/ Drop(z, Len(z) - 4) # Trailer(b)
             THEN Thrown
             ELSE [ok |-> TRUE, value |-> b]

RECURSIVE Btoa(_)
\* btoa(String.fromCharCode.apply(null, bytes))
Btoa(b) ==
    IF b = <<>> THEN <<>>
    ELSE IF Len(b) = 1 THEN <<b[1] \div 4, (b[1] % 4) * 16, 64, 64>>
    ELSE IF Len(b) = 2
    THEN <<b[1] \div 4, (b[1] % 4) * 16 + (b[2] \div 16), (b[2] % 16) * 4, 64>>
    ELSE <<b[1] \div 4, (b[1] % 4) * 16 + (b[2] \div 16),
           (b[2] % 16) * 4 + (b[3] \div 64), b[3] % 64>> \o Btoa(Drop(b, 3))

RECURSIVE Atob(_)
\* atob(base64).split('').map(x => x.charCodeAt(0)); atob throws on a
\* character outside the alphabet and on a misplaced padding
Atob(t) ==
    IF t = <<>> THEN [ok |-> TRUE, value |-> <<>>]
    ELSE IF Len(t) < 4 \/ \E i \in 1..4 : t[i] \notin 0..64 THEN Thrown
    ELSE IF t[1] = 64 \/ t[2] = 64 THEN Thrown
    ELSE IF t[3] = 64
    THEN IF t[4] # 64 \/ Len(t) > 4 THEN Thrown
         ELSE [ok |-> TRUE, value |-> <<t[1] * 4 + (t[2] \div 16)>>]
    ELSE IF t[4] = 64
    THEN IF Len(t) > 4 THEN Thrown
         ELSE [ok |-> TRUE, value |-> <<t[1] * 4 + (t[2] \div 16),
                                        (t[2] % 16) * 16 + (t[3] \div 4)>>]
    ELSE LET rest == Atob(Drop(t, 4))
         IN  IF ~rest.ok THEN Thrown
             ELSE [ok |-> TRUE, value |-> <<t[1] * 4 + (t[2] \div 16),
                                            (t[2] % 16) * 16 + (t[3] \div 4),
                                            (t[3] % 4) * 64 + t[4]>> \o rest.value]

\* compressSDP(data)
compressSDP(data) == Btoa(Deflate(Utf8(JSONstringify(data))))

\* decompressSDP(base64): the descriptor, or the exception of the first step
\* that throws
decompressSDP(base64) ==
    LET bad      == [ok |-> FALSE, value |-> NoDescriptor]
        charData == Atob(base64)
    IN  IF ~charData.ok THEN bad
        ELSE LET binData == Inflate(charData.value)
             IN  IF ~binData.ok THEN bad
                 ELSE LET decompressed == Utf8Decode(binData.value)
                      IN  IF ~decompressed.ok THEN bad
                          ELSE JSONparseObject(decompressed.value)

\* the description the peer connection made, as the text compressSDP is given
\* (the type as its characters, the SDP as lines), and the tokens a scanner
\* can read that no compressSDP made: text that is not base64, and the base64
\* of bytes that are not a zlib stream
TypeChars(type) == IF type = "offer" THEN Offer ELSE Answer
LocalSdp == <<"v", "\n">>
BadTokens == {<<30, 65, 1, 2>>, Btoa(<<1, 2, 3>>)}

NoCodec == [phase |-> "none", d |-> NoDescriptor, token |-> <<>>,
            back |-> [ok |-> FALSE, value |-> NoDescriptor]]

RECURSIVE Strings(_)
\* the strings of at most n characters of a session description
Strings(n) ==
    IF n = 0 THEN {<<>>}
    ELSE LET shorter == Strings(n - 1)
         IN  shorter \cup {<<c>> \o str : c \in SdpChars,
                                          str \in {x \in shorter : Len(x) = n - 1}}

\* the valid descriptors {type: offer | answer, sdp: string}
Descriptors == [type : {Offer, Answer}, sdp : Strings(MaxSdp)]

\* this.compressSDP({type, sdp: this.peerConnection.localDescription!.sdp}),
\* for each type of local description
LocalToken ==
    [type \in {"offer", "answer"} |->
        compressSDP([type |-> TypeChars(type), sdp |-> LocalSdp])]

\* the end of createOffer / handleOffer: the token of the local description
\* (localDescription! throws when there is none), which the flow then shows
ReturnToken(st, type) ==
    IF st.local = "none" THEN st
    ELSE [st EXCEPT !.token = LocalToken[type],
                    !.step = IF type = "answer" THEN "show-answer" ELSE @]

\* a wait of waitForIceGathering: the promise (settled or not, and how often
\* its caller went on), its 3 s timer and its checkIce listener
NewWait(type, timer) ==
    [type |-> type, settled |-> FALSE, returns |-> 0, timer |-> timer, listening |-> TRUE]

\* a waitForIceGathering that arms no timer
waitForIceGatheringNoTimer(st, type) ==
    IF st.gathering = "complete" THEN ReturnToken(st, type)
    ELSE [st EXCEPT !.waiters = Append(@, NewWait(type, FALSE))]

\* await this.waitForIceGathering(), then return the token
waitForIceGathering(st, type) ==
    IF st.gathering = "complete" THEN ReturnToken(st, type)
    ELSE [st EXCEPT !.waiters = Append(@, NewWait(type, TRUE))]

\* resolve() of wait i: a promise that is settled stays as it is; otherwise
\* the caller of waitForIceGathering goes on and returns its token
ResolveWait(st, i) ==
    IF st.waiters[i].settled THEN st
    ELSE ReturnToken([st EXCEPT !.waiters[i].settled = TRUE, !.waiters[i].returns = @ + 1],
                     st.waiters[i].type)

\* checkIce of wait i, gathering being complete: clearTimeout, removeEventListener,
\* resolve()
checkIce(st, i) ==
    ResolveWait([st EXCEPT !.waiters[i].timer = FALSE, !.waiters[i].listening = FALSE], i)

\* createOffer(), up to its first await
createOffer(st) == Call(CreateChannel(st), "createOffer", None, "co:setLocal", 0)

\* a handleOffer that calls setRemoteDescription before it looks at what
\* decompressSDP did
handleOfferUnchecked(st, compressedOffer) ==
    LET data == decompressSDP(compressedOffer)
    IN  Call(IF ~data.ok THEN [st EXCEPT !.nDecodeError = @ + 1] ELSE st,
             "sRD", "offer", "ho:answer", 0)

\* handleOffer(compressedOffer), up to its first await; decompressSDP throws
\* before anything is awaited
handleOffer(st, compressedOffer) ==
    LET data == decompressSDP(compressedOffer)
    IN  IF ~data.ok THEN [st EXCEPT !.nDecodeError = @ + 1]
        ELSE Call(st, "sRD", "offer", "ho:answer", 0)

\* handleAnswer(compressedAnswer), up to its await
handleAnswer(st, compressedAnswer) ==
    LET data == decompressSDP(compressedAnswer)
    IN  IF ~data.ok THEN [st EXCEPT !.nDecodeError = @ + 1]
        ELSE Call(st, "sRD", "answer", "done", 0)

\* the rest of a handler after the awaited call has resolved, up to its next
\* await or its end
Resume(st, k, i) ==
    CASE k \in {"offer:drain", "answer:drain"} -> DrainPending(st, k, i)
      [] k = "offer:setLocal" -> Call(st, "sLD", "answer", "offer:emit", 0)
      [] k = "offer:emit" ->
            Emit(st, SignalMsg(st, [type |-> "answer", sdp |-> "answer"]))
      [] k = "gj:setLocal" -> Call(st, "sLD", "offer", "gj:emit", 0)
      [] k = "gj:emit" ->
            Report(Emit(st, SignalMsg(st, [type |-> "offer", sdp |-> "offer"])),
                   "connecting")
      [] k = "co:setLocal" -> Call(st, "sLD", "offer", "co:gather", 0)
      [] k = "co:gather" -> waitForIceGathering(st, "offer")
      [] k = "ho:answer" -> Call(st, "createAnswer", None, "ho:setLocal", 0)
      [] k = "ho:setLocal" -> Call(st, "sLD", "answer", "ho:gather", 0)
      [] k = "ho:gather" -> waitForIceGathering(st, "answer")
      [] OTHER -> st

\* whether the peer connection accepts the call at the head of its chain
\* (rollback: whether the browser rolls a local offer back for a remote one)
PcAccepts(st, e, rollback) ==
    CASE e.op = "createOffer" -> st.sig \in {"stable", "have-local-offer"}
      [] e.op = "createAnswer" -> st.sig = "have-remote-offer"
      [] e.op = "sLD" /\ e.arg = "offer" -> st.sig \in {"stable", "have-local-offer"}
      [] e.op = "sLD" /\ e.arg = "answer" -> st.sig = "have-remote-offer"
      [] e.op = "sRD" /\ e.arg = "offer" ->
            \/ st.sig \in {"stable", "have-remote-offer"}
            \/ st.sig = "have-local-offer" /\ rollback
      [] e.op = "sRD" /\ e.arg = "answer" -> st.sig = "have-local-offer"
      [] e.op = "addIce" -> st.remote # "none"
      [] OTHER -> FALSE

\* what an accepted call does to the peer connection
PcEffect(st, e) ==
    CASE e.op = "sLD" ->
            [st EXCEPT !.local = e.arg, !.nLocal = @ + 1,
                       !.sig = IF e.arg = "offer" THEN "have-local-offer" ELSE "stable"]
      [] e.op = "sRD" ->
            [st EXCEPT !.remote = e.arg, !.nRemote = @ + 1,
                       !.sig = IF e.arg = "offer" THEN "have-remote-offer" ELSE "stable",
                       !.local = IF e.arg = "offer" /\ st.sig = "have-local-offer"
                                 THEN "none" ELSE @]
      [] e.op = "addIce" -> [st EXCEPT !.applied = Append(@, e.arg)]
      [] OTHER -> st

\* the call at the head of the chain settles and the handler awaiting it goes
\* on (a rejection ends the handler: the signal handler's catch logs it)
PcSettle(st, rollback) ==
    LET e == Head(st.chain)
        st1 == [st EXCEPT !.chain = Tail(@)]
    IN  IF PcAccepts(st, e, rollback)
        THEN Resume(PcEffect(st1, e), e.k, e.i)
        ELSE st1

(* --------------------------- file transfer ----------------------------- *)
\* const chunkSize = 16384
chunkSize == 16384
\* the send loop's high-water mark, 1024 * 1024
HighWater == 1048576

Min(a, b) == IF a <= b THEN a ELSE b

\* the sizes of the files the user picks: empty, shorter than a chunk, one
\* chunk exactly, a chunk and a byte, and one that can fill the buffer
LargeFile == (MaxFrames - 2) * chunkSize + 1
FileSizes == {0, 1, chunkSize, chunkSize + 1, LargeFile}
FramesOf(size) == 1 + (size + chunkSize - 1) \div chunkSize

\* the fields of the manager that receive a file
NewReceiver ==
    [expectedSize |-> 0, expectedName |-> 0, receiveBuffer |-> <<>>,
     receivedSize |-> 0, reports |-> <<>>, emitted |-> FALSE]

NoTransfer ==
    [readyState |-> "connecting", sends |-> <<>>, buffer |-> <<>>,
     sent |-> <<>>, recv |-> NewReceiver, artifacts |-> <<>>, strays |-> <<>>,
     calls |-> 0]

\* JSON.stringify({type: 'metadata', name, size, mime}); a file is named by
\* the ordinal of its sendFile call
Metadata(name, size) == [type |-> "metadata", name |-> name, size |-> size]
\* a slice that is a whole chunk even at the end of the file
SliceUnclamped(name, size, offset) ==
    [type |-> "chunk", file |-> name, from |-> offset, len |-> chunkSize]
\* file.slice(offset, offset + chunkSize), read as an ArrayBuffer: the bytes
\* [from, from + len) of the file
Slice(name, size, offset) ==
    [type |-> "chunk", file |-> name, from |-> offset,
     len |-> Min(chunkSize, size - offset)]

\* the bytes a frame occupies in the channel's buffer
ByteLength(f) == IF f.type = "chunk" THEN f.len ELSE 64

RECURSIVE TotalBytes(_)
TotalBytes(q) == IF q = <<>> THEN 0 ELSE ByteLength(Head(q)) + TotalBytes(Tail(q))
\* dataChannel.bufferedAmount
bufferedAmount(x) == TotalBytes(x.buffer)

\* dataChannel.send(frame)
ChannelSend(x, f) ==
    [x EXCEPT !.buffer = Append(@, f), !.sent = Append(@, f)]

\* the progress without Math.min
PercentUncapped(offset, size) == [num |-> offset, den |-> size]
\* Math.min(100, (offset / file.size) * 100), kept as the fraction of 100
Percent(offset, size) ==
    IF offset >= size THEN [num |-> 1, den |-> 1] ELSE [num |-> offset, den |-> size]

\* this.onProgress(progress, status) of send i
SendProgress(x, i, pct, status) ==
    [x EXCEPT !.sends[i].reports = Append(@, [status |-> status, pct |-> pct])]

\* sendNextChunk: report completion, or start reading the next slice
sendNextChunk(x, i) ==
    IF x.sends[i].offset >= x.sends[i].size
    THEN SendProgress([x EXCEPT !.sends[i].phase = "completed"], i,
                      [num |-> 1, den |-> 1], "completed")
    ELSE [x EXCEPT !.sends[i].phase = "reading"]

\* sendFile(file): nothing happens unless the channel is open (calls counts
\* the calls, sends keeps those that went past the guard)
sendFile(x, size) ==
    IF x.readyState # "open" THEN [x EXCEPT !.calls = @ + 1]
    ELSE LET i  == Len(x.sends) + 1
             x1 == [x EXCEPT !.calls = @ + 1,
                             !.sends = Append(@, [name |-> i, size |-> size,
                                                  offset |-> 0, phase |-> "called",
                                                  reports |-> <<>>])]
         IN  sendNextChunk(ChannelSend(x1, Metadata(i, size)), i)

\* reader.onload of send i
readerOnload(x, i) ==
    LET f  == x.sends[i]
        x1 == ChannelSend(x, Slice(f.name, f.size, f.offset))
        x2 == [x1 EXCEPT !.sends[i].offset = @ + chunkSize]
        x3 == SendProgress(x2, i, Percent(x2.sends[i].offset, f.size), "sending")
    IN  IF x.readyState # "open" THEN [x EXCEPT !.sends[i].phase = "stopped"]
        ELSE IF bufferedAmount(x3) < HighWater THEN sendNextChunk(x3, i)
        ELSE [x3 EXCEPT !.sends[i].phase = "timer"]

\* the string messages a peer can send that are not metadata: text that is
\* not JSON, the JSON value null, and a JSON object of another type
Texts == {"{", "null", "{\"type\":\"chat\"}"}

\* JSON.parse(data): it throws on text that is not JSON
JSONparse(t) ==
    CASE t = "{"    -> [ok |-> FALSE, value |-> "none", type |-> "none"]
      [] t = "null" -> [ok |-> TRUE, value |-> "null", type |-> "none"]
      [] OTHER      -> [ok |-> TRUE, value |-> "object", type |-> "chat"]

\* this.onProgress(progress, 'receiving'); late: an artifact has already been
\* emitted since the last metadata message
ReceiveProgress(rc, pct) ==
    [rc EXCEPT !.reports = Append(@, [pct |-> pct, received |-> rc.receivedSize,
                                      declared |-> rc.expectedSize,
                                      late |-> rc.emitted])]

\* Math.min(100, (this.receivedSize / this.expectedSize) * 100); a division by
\* zero gives Infinity, which Math.min caps
ReceivePercent(received, expected) ==
    IF received >= expected THEN [num |-> 1, den |-> 1]
    ELSE [num |-> received, den |-> expected]

\* a metadata branch that keeps the buffer and the byte count
ReceiveMetadataNoReset(x, f) ==
    [x EXCEPT !.recv = ReceiveProgress(
        [@ EXCEPT !.expectedSize = f.size, !.expectedName = f.name,
                  !.reports = <<>>, !.emitted = FALSE],
        [num |-> 0, den |-> 1])]

\* the metadata branch
ReceiveMetadata(x, f) ==
    [x EXCEPT !.recv = ReceiveProgress(
        [expectedSize |-> f.size, expectedName |-> f.name, receiveBuffer |-> <<>>,
         receivedSize |-> 0, reports |-> <<>>, emitted |-> FALSE],
        [num |-> 0, den |-> 1])]

\* the ArrayBuffer branch; at: the number of frames handled so far
ReceiveBinary(x, f) ==
    LET rc1 == [x.recv EXCEPT !.receiveBuffer = Append(@, f),
                              !.receivedSize = @ + f.len]
        rc2 == ReceiveProgress(rc1, ReceivePercent(rc1.receivedSize, rc1.expectedSize))
    IN  IF rc2.receivedSize >= rc2.expectedSize
        THEN [x EXCEPT !.recv = [rc2 EXCEPT !.receiveBuffer = <<>>, !.emitted = TRUE],
                       !.artifacts = Append(@, [name |-> rc2.expectedName,
                                                declared |-> rc2.expectedSize,
                                                parts |-> rc2.receiveBuffer,
                                                at |-> Len(x.sent) - Len(x.buffer)])]
        ELSE [x EXCEPT !.recv = rc2]

\* a string branch that takes every JSON object for a metadata message
ReceiveStringAnyType(x, f) ==
    IF f.type = "metadata" THEN ReceiveMetadata(x, f)
    ELSE LET meta == JSONparse(f.text)
         IN  IF ~meta.ok \/ meta.value = "null" THEN x
             ELSE ReceiveMetadata(x, [name |-> 0, size |-> 0])

\* the string branch: a metadata message, or a text that is parsed and, when
\* it throws or has another type, left alone
ReceiveString(x, f) ==
    IF f.type = "metadata" THEN ReceiveMetadata(x, f)
    ELSE LET meta == JSONparse(f.text)
         IN  IF ~meta.ok \/ meta.value = "null" THEN x
             ELSE x

\* a handler whose metadata branch keeps the buffer and the byte count
handleDataMessageNoReset(x, f) ==
    IF f.type = "metadata" THEN ReceiveMetadataNoReset(x, f)
    ELSE IF f.type = "text" THEN ReceiveString(x, f)
    ELSE ReceiveBinary(x, f)
\* handleDataMessage(data)
handleDataMessage(x, f) ==
    IF f.type \in {"metadata", "text"} THEN ReceiveString(x, f)
    ELSE ReceiveBinary(x, f)

(* ------------------------------ relay --------------------------------- *)
NoLog == [ok |-> {}, full |-> {}, notified |-> 0]

Boot ==
    /\ rooms = <<>>
    /\ members = [c \in Codes |-> {}]
    /\ conns = {}
    /\ closed = {}
    /\ toServer = [s \in Sock |-> <<>>]
    /\ toClient = [s \in Sock |-> <<>>]
    /\ joinLog = [c \in Codes |-> NoLog]
    /\ freed = {}
    /\ nreq = 0
    /\ nfail = 0
    /\ xfer = NoTransfer

RelayStart == Boot /\ codec = NoCodec

\* the relay alone: no session is modelled, its clients send what they like
RelayInit == RelayStart /\ sess = <<>>

\* io.to(id).emit(...): appended to the target's stream if it is connected
SendTo(q, live, t, m) ==
    IF t \in live THEN [q EXCEPT ![t] = Append(@, m)] ELSE q

Fits(q) == \A t \in Sock : Len(q[t]) <= MaxQueue

\* the codes the do-while loop can leave with: any code not in the table
generateRoomCodeAny == Codes
generateRoomCode == Codes \ DOMAIN rooms

HasRequest(s, type) ==
    /\ s \in conns
    /\ toServer[s] # <<>>
    /\ Head(toServer[s]).type = type

\* socket.on('create-room')
CreateRoom(s, inbox) ==
    /\ HasRequest(s, "create-room")
    /\ \E code \in generateRoomCode :
         /\ rooms' = [c \in DOMAIN rooms \cup {code} |->
                        IF c = code THEN [host |-> s, guest |-> None] ELSE rooms[c]]
         /\ members' = [members EXCEPT ![code] = @ \cup {s}]
         /\ joinLog' = [joinLog EXCEPT ![code] = NoLog]
         /\ toClient' = SendTo(inbox, conns, s,
                               [type |-> "ack-create", roomCode |-> code])
    /\ toServer' = [toServer EXCEPT ![s] = Tail(@)]
    /\ UNCHANGED <<conns, closed, freed>>

\* the answer join-room gives to socket s for roomCode
JoinAnswerNoFullCheck(s, roomCode) ==
    IF roomCode \notin DOMAIN rooms THEN "Room not found" ELSE "success"
JoinAnswer(s, roomCode) ==
    IF roomCode \notin DOMAIN rooms THEN "Room not found"
    ELSE IF rooms[roomCode].guest # None THEN "Room is full"
    ELSE "success"

\* socket.on('join-room')
JoinRoom(s, inbox) ==
    /\ HasRequest(s, "join-room")
    /\ LET req == Head(toServer[s])
           roomCode == req.roomCode
           answer == JoinAnswer(s, roomCode)
           ack == [type |-> "ack-join", id |-> req.id, answer |-> answer]
       IN  IF answer = "success"
           THEN /\ rooms' = [rooms EXCEPT ![roomCode].guest = s]
                /\ members' = [members EXCEPT ![roomCode] = @ \cup {s}]
                /\ toClient' = SendTo(SendTo(inbox, conns, rooms[roomCode].host,
                                             [type |-> "guest-joined"]),
                                      conns, s, ack)
                /\ joinLog' = [joinLog EXCEPT ![roomCode] =
                                 [@ EXCEPT !.ok = @ \cup {s}, !.notified = @ + 1]]
           ELSE /\ toClient' = SendTo(inbox, conns, s, ack)
                /\ joinLog' = IF answer = "Room is full"
                              THEN [joinLog EXCEPT ![roomCode].full = @ \cup {s}]
                              ELSE joinLog
                /\ UNCHANGED <<rooms, members>>
    /\ toServer' = [toServer EXCEPT ![s] = Tail(@)]
    /\ UNCHANGED <<conns, closed, freed>>

\* the occupant a signal from s is relayed to (None: dropped)
SignalTarget(s, roomCode) ==
    IF roomCode \notin DOMAIN rooms THEN None
    ELSE IF s = rooms[roomCode].host THEN rooms[roomCode].guest
    ELSE rooms[roomCode].host

\* socket.on('signal')
Signal(s, inbox) ==
    /\ HasRequest(s, "signal")
    /\ LET req == Head(toServer[s])
           target == SignalTarget(s, req.roomCode)
       IN  toClient' = IF target # None
                       THEN SendTo(inbox, conns, target,
                                   [type |-> "signal", data |-> req.data])
                       ELSE inbox
    /\ toServer' = [toServer EXCEPT ![s] = Tail(@)]
    /\ UNCHANGED <<rooms, members, conns, closed, joinLog, freed>>

\* the rooms the disconnect handler deletes for socket s
RoomsOfHostOnly(s) == {c \in DOMAIN rooms : rooms[c].host = s}
RoomsOf(s) == {c \in DOMAIN rooms : rooms[c].host = s \/ rooms[c].guest = s}

OtherOccupant(s, c) == IF rooms[c].host = s THEN rooms[c].guest ELSE rooms[c].host

RECURSIVE Repeat(_, _)
Repeat(m, n) == IF n = 0 THEN <<>> ELSE <<m>> \o Repeat(m, n - 1)

\* socket.on('disconnect'): the socket is gone, its rooms are deleted and
\* the other occupant of each is notified
Disconnect(s, inbox) ==
    /\ s \in conns
    /\ conns' = conns \ {s}
    /\ closed' = closed \cup {s}
    /\ LET gone == RoomsOf(s)
       IN  /\ rooms' = [c \in DOMAIN rooms \ gone |-> rooms[c]]
           /\ freed' = freed \cup gone
           /\ joinLog' = [c \in Codes |-> IF c \in gone THEN NoLog ELSE joinLog[c]]
           /\ toClient' = [t \in Sock |->
                IF t = s THEN <<>>
                ELSE IF t \in conns
                THEN inbox[t] \o
                     Repeat([type |-> "peer-disconnected"],
                            Cardinality({c \in gone : OtherOccupant(s, c) = t}))
                ELSE inbox[t]]
    /\ members' = [c \in Codes |-> members[c] \ {s}]
    /\ toServer' = [toServer EXCEPT ![s] = <<>>]

(* --------------------- relay with arbitrary clients -------------------- *)
\* what a client may send: any event of the wire protocol, for any code (a
\* signal's payload is opaque to the relay)
Requests ==
    {[type |-> "create-room"]}
    \cup {[type |-> "join-room", roomCode |-> c, id |-> 1] : c \in Codes}
    \cup {[type |-> "signal", roomCode |-> c,
            data |-> [type |-> "offer", sdp |-> "offer"]] : c \in Codes}

\* the clients of this specification read what the relay sends at once: a
\* relay step leaves in toClient exactly what it sent
NoInbox == [t \in Sock |-> <<>>]

\* io.on('connection'): a new socket, under the next unused id
Connect(s) ==
    /\ s \notin conns \cup closed
    /\ \A t \in Sock : t < s => t \in conns \cup closed
    /\ conns' = conns \cup {s}
    /\ UNCHANGED <<rooms, members, closed, toServer, joinLog, freed>>

\* a socket's requests reach the relay in the order sent, so what the relay
\* does is decided by the order in which it handles requests: the next one
\* is sent once the previous one has been handled
ClientEmit(s) ==
    /\ s \in conns
    /\ toServer[s] = <<>>
    /\ nreq < MaxReq
    /\ nreq' = nreq + 1
    /\ \E m \in Requests : toServer' = [toServer EXCEPT ![s] = Append(@, m)]
    /\ UNCHANGED <<rooms, members, conns, closed, joinLog, freed>>

RelayNext ==
    \E s \in Sock :
        \/ (Connect(s) /\ toClient' = NoInbox /\ UNCHANGED <<nreq, nfail, sess, xfer, codec>>)
        \/ (ClientEmit(s) /\ toClient' = NoInbox /\ UNCHANGED <<nfail, sess, xfer, codec>>)
        \/ (CreateRoom(s, NoInbox) /\ UNCHANGED <<nreq, nfail, sess, xfer, codec>>)
        \/ (JoinRoom(s, NoInbox) /\ UNCHANGED <<nreq, nfail, sess, xfer, codec>>)
        \/ (Signal(s, NoInbox) /\ UNCHANGED <<nreq, nfail, sess, xfer, codec>>)
        \/ (Disconnect(s, NoInbox) /\ UNCHANGED <<nreq, nfail, sess, xfer, codec>>)

RelaySpec == RelayInit /\ [][RelayNext]_vars

(* ------------------- two sessions and the relay ------------------------ *)
\* one step of session s: its new state, and what it emitted goes to the relay
Commit(s, st) ==
    /\ sess' = [sess EXCEPT ![s] = [st EXCEPT !.emit = <<>>]]
    /\ toServer' = [toServer EXCEPT ![s] = @ \o st.emit]
    /\ Len(toServer'[s]) <= MaxQueue

relayState == <<rooms, members, conns, closed, joinLog, freed, nreq, nfail, xfer, codec>>

\* one more of the failures a run may see
Failure == nfail < MaxFail /\ nfail' = nfail + 1
failState == <<rooms, members, conns, closed, joinLog, freed, nreq, xfer, codec>>

\* a joinRoom that emits join-room without arming its timer
JoinContinueNoTimer(st, code) ==
    LET id == st.njoin + 1
    IN  Emit([st EXCEPT !.isHost = FALSE, !.roomCode = code, !.njoin = id,
                        !.unresolved = @ \cup {id}, !.call = "none"],
             [type |-> "join-room", roomCode |-> code, id |-> id])

\* joinRoom after `await this.connectSocket()`
JoinContinue(st, code) ==
    LET id == st.njoin + 1
    IN  Emit([st EXCEPT !.isHost = FALSE, !.roomCode = code, !.njoin = id,
                        !.timers = @ \cup {id}, !.unresolved = @ \cup {id},
                        !.call = "none"],
             [type |-> "join-room", roomCode |-> code, id |-> id])

\* createRoom after `await this.connectSocket()`
CreateContinue(st) ==
    Emit([st EXCEPT !.isHost = TRUE, !.call = "none"], [type |-> "create-room"])

\* resolve(ok) of the promise joinRoom returned for call id, and what
\* JoinFlow.handleJoinRoom does with the result
\* (outcomes keeps, per settled call, its cause and what the caller observed)
Resolve(st, id, ok, cause) ==
    IF id \notin st.unresolved THEN st
    ELSE LET st1 == [st EXCEPT !.unresolved = @ \ {id},
                               !.outcomes = @ \cup {[cause |-> cause,
                                                     result |-> IF ok THEN "true" ELSE "false",
                                                     status |-> st.status]}]
         IN  IF ok THEN st1
             ELSE [st1 EXCEPT !.joinFailed = TRUE, !.joining = FALSE]

\* HostFlow's effect: manager.createRoom(), up to the wait for the socket
CallCreateRoom(s) ==
    /\ s = HostId
    /\ ~sess[s].started
    /\ sess[s].roomCode = None
    /\ Commit(s, [sess[s] EXCEPT !.started = TRUE, !.socket = "connecting",
                                 !.call = "create"])
    /\ UNCHANGED <<relayState, toClient>>

\* JoinFlow.handleJoinRoom(code): manager.joinRoom(code), up to its first wait
CallJoinRoom(s) ==
    /\ s = GuestId
    /\ ~sess[s].joining
    /\ sess[s].njoin < MaxJoins
    /\ sess[s].socket \in {"none", "open"}
    /\ \E code \in Codes :
         LET st == [sess[s] EXCEPT !.joining = TRUE]
         IN  IF st.socket = "open"
             THEN Commit(s, JoinContinue(st, code))
             ELSE Commit(s, [st EXCEPT !.socket = "connecting", !.call = "join",
                                       !.callCode = code])
    /\ UNCHANGED <<relayState, toClient>>

\* socket.on('connect'): connectSocket resolves and its caller goes on
SocketConnected(s) ==
    /\ sess[s].socket = "connecting"
    /\ conns' = conns \cup {s}
    /\ LET st == [sess[s] EXCEPT !.socket = "open"]
       IN  Commit(s, IF st.call = "create" THEN CreateContinue(st)
                     ELSE IF st.call = "join" THEN JoinContinue(st, st.callCode)
                     ELSE st)
    /\ UNCHANGED <<rooms, members, closed, joinLog, freed, nreq, nfail, xfer, codec, toClient>>

\* the callback of socket.emit('join-room', code, callback)
OnJoinAck(st, m) ==
    LET st1 == [st EXCEPT !.timers = @ \ {m.id}]
    IN  IF m.answer # "success"
        THEN Resolve(Report(st1, "error"), m.id, FALSE, m.answer)
        ELSE Resolve(Report(st1, "connecting"), m.id, TRUE, m.answer)

\* the handler the socket runs for one event or ack from the relay
OnMessage(st, m) ==
    CASE m.type = "ack-create" ->
            Report([st EXCEPT !.roomCode = m.roomCode], "waiting")
      [] m.type = "ack-join" -> OnJoinAck(st, m)
      [] m.type = "guest-joined" -> OnGuestJoined(st)
      [] m.type = "signal" -> OnSignal(st, m.data)
      [] m.type = "peer-disconnected" -> Report(st, "disconnected")
      [] OTHER -> st

ClientRecv(s) ==
    /\ toClient[s] # <<>>
    /\ sess[s].socket = "open"
    /\ toClient' = [toClient EXCEPT ![s] = Tail(@)]
    /\ Commit(s, OnMessage(sess[s], Head(toClient[s])))
    /\ UNCHANGED relayState

\* the 10 s timer of joinRoom fires before the relay's answer has come
OnJoinTimer(st, id) ==
    Resolve(Report([st EXCEPT !.timers = @ \ {id}], "error"), id, FALSE, "timeout")

JoinTimeout(s) ==
    /\ \E id \in sess[s].timers : Commit(s, OnJoinTimer(sess[s], id))
    /\ Failure
    /\ UNCHANGED <<failState, toClient>>

\* a browser may or may not roll a pending local offer back for a remote one
RollbackChoices(st) ==
    IF /\ Head(st.chain).op = "sRD" /\ Head(st.chain).arg = "offer"
       /\ st.sig = "have-local-offer"
    THEN BOOLEAN ELSE {FALSE}

\* the peer connection settles the call at the head of its operations chain
PcStep(s) ==
    /\ sess[s].chain # <<>>
    /\ \E rollback \in RollbackChoices(sess[s]) : Commit(s, PcSettle(sess[s], rollback))
    /\ UNCHANGED <<relayState, toClient>>

\* addIceCandidate rejects a candidate the connection cannot use: the handler
\* awaiting it ends in the signal handler's catch
AddIceRejects(st) ==
    [st EXCEPT !.chain = Tail(@), !.nApplyFailed = @ + 1]

\* the peer connection cannot use the candidate it is asked to add
AddIceFails(s) ==
    /\ sess[s].chain # <<>>
    /\ Head(sess[s].chain).op = "addIce"
    /\ Commit(s, AddIceRejects(sess[s]))
    /\ Failure
    /\ UNCHANGED <<failState, toClient>>

\* peerConnection.onicecandidate with a candidate
OnIceCandidate(st) ==
    LET n == st.ncand + 1
        st1 == [st EXCEPT !.ncand = n]
    IN  IF st.socket # "none" /\ st.roomCode # None
        THEN Emit(st1, SignalMsg(st1, [type |-> "ice-candidate",
                                      candidate |-> [from |-> st.isHost, n |-> n]]))
        ELSE st1

\* the connection gathers one more candidate (a candidate emitted while the
\* previous event is still on its way to the relay reaches it in the same
\* order as one emitted later, so the next is gathered once the socket is idle)
IceCandidate(s) ==
    /\ sess[s].local # "none"
    /\ sess[HostId].ncand + sess[GuestId].ncand < MaxCand
    /\ toServer[s] = <<>>
    /\ Commit(s, OnIceCandidate(sess[s]))
    /\ UNCHANGED <<relayState, toClient>>

Described(st) == st.local # "none" /\ st.remote # "none"

\* peerConnection.onconnectionstatechange
OnConnectionState(st, state) ==
    IF state = "connected" THEN Report([st EXCEPT !.conn = state], "connected")
    ELSE IF state = "failed" THEN Report([st EXCEPT !.conn = state], "failed")
    ELSE [st EXCEPT !.conn = state]

\* connectivity completes once both ends hold both descriptions
PcConnected(s) ==
    /\ sess[s].conn = "new"
    /\ Described(sess[s]) /\ Described(sess[Peer(s)])
    /\ sess[Peer(s)].conn \notin {"failed", "closed"}
    /\ Commit(s, OnConnectionState(sess[s], "connected"))
    /\ UNCHANGED <<relayState, toClient>>

\* connectivity fails (ICE or DTLS)
PcFailed(s) ==
    /\ sess[s].conn \in {"new", "connected"}
    /\ Described(sess[s])
    /\ Commit(s, OnConnectionState(sess[s], "failed"))
    /\ Failure
    /\ UNCHANGED <<failState, toClient>>

\* peerConnection.ondatachannel: a channel the peer created arrives
DcAnnounce(s) ==
    /\ sess[s].conn = "connected"
    /\ sess[s].nrecv < sess[Peer(s)].nChan
    /\ Commit(s, setupDataChannel(sess[s], [by |-> "remote", n |-> sess[s].nrecv + 1]))
    /\ UNCHANGED <<relayState, toClient>>

\* dataChannel.onopen
DcOpen(s) ==
    /\ sess[s].dc = "connecting"
    /\ sess[s].conn = "connected"
    /\ sess[Peer(s)].conn = "connected"
    /\ Commit(s, Report([sess[s] EXCEPT !.dc = "open"], "connected"))
    /\ UNCHANGED <<relayState, toClient>>

\* dataChannel.onclose: the transport under the channel is gone
DcClose(s) ==
    /\ sess[s].dc = "open"
    /\ sess[s].conn = "failed" \/ sess[Peer(s)].conn = "failed"
    /\ Commit(s, Report([sess[s] EXCEPT !.dc = "closed"], "disconnected"))
    /\ UNCHANGED <<relayState, toClient>>

\* the session's connection to the relay is lost for the rest of the run; the
\* relay sees it disconnect
SocketDrop(s) ==
    /\ sess[s].socket = "open"
    /\ Disconnect(s, toClient)
    /\ Fits(toClient')
    /\ sess' = [sess EXCEPT ![s].socket = "closed"]
    /\ Failure
    /\ UNCHANGED <<nreq, xfer, codec>>

\* the relay handles the next event of session s
RelayHandles(s) ==
    /\ \/ CreateRoom(s, toClient)
       \/ JoinRoom(s, toClient)
       \/ Signal(s, toClient)
    /\ Fits(toClient')
    /\ UNCHANGED <<nreq, nfail, sess, xfer, codec>>

Init == RelayStart /\ sess = [s \in Sess |-> NewSession]

\* the steps of a run in which nothing goes wrong
NextCore ==
    \E s \in Sess :
        \/ CallCreateRoom(s)
        \/ CallJoinRoom(s)
        \/ SocketConnected(s)
        \/ RelayHandles(s)
        \/ ClientRecv(s)
        \/ PcStep(s)
        \/ IceCandidate(s)
        \/ PcConnected(s)
        \/ DcAnnounce(s)
        \/ DcOpen(s)

\* what can go wrong: a slow relay, a lost relay connection, failed connectivity
NextFailure ==
    \E s \in Sess :
        \/ JoinTimeout(s)
        \/ SocketDrop(s)
        \/ PcFailed(s)
        \/ DcClose(s)
        \/ AddIceFails(s)

Next == NextCore \/ NextFailure

Spec == Init /\ [][Next]_vars

(* ------------------ two sessions paired by QR tokens -------------------- *)
\* HostFlow in QR mode: manager.createOffer()
CallCreateOffer(s) ==
    /\ s = HostId
    /\ sess[s].nOffer < MaxCalls
    /\ Commit(s, createOffer([sess[s] EXCEPT !.nOffer = @ + 1]))
    /\ UNCHANGED <<relayState, toClient>>

\* what the scanner of s can read: the token the peer shows, or a QR code
\* that is no token
Scanned(s) ==
    (IF sess[Peer(s)].token # <<>> THEN {sess[Peer(s)].token} ELSE {}) \cup BadTokens

\* JoinFlow.handleScanOffer(data): the scanner has read the token the host shows
CallHandleOffer(s) ==
    /\ s = GuestId
    /\ sess[s].step = "input"
    /\ sess[s].nScan < MaxCalls
    /\ \E t \in Scanned(s) :
          Commit(s, handleOffer([sess[s] EXCEPT !.nScan = @ + 1], t))
    /\ UNCHANGED <<relayState, toClient>>

\* HostFlow.handleScanAnswer(data): the scanner has read the token the guest shows
CallHandleAnswer(s) ==
    /\ s = HostId
    /\ sess[s].token # <<>>
    /\ sess[s].nScan < MaxCalls
    /\ \E t \in Scanned(s) :
          Commit(s, handleAnswer([sess[s] EXCEPT !.nScan = @ + 1], t))
    /\ UNCHANGED <<relayState, toClient>>

\* the listeners of icegatheringstatechange run in the order they were added,
\* from wait i on
RECURSIVE ResolveWaiters(_, _)
ResolveWaiters(st, i) ==
    IF i > Len(st.waiters) THEN st
    ELSE ResolveWaiters(IF st.waiters[i].listening THEN checkIce(st, i) ELSE st, i + 1)

\* a wait whose promise is settled, whose timer is cleared and whose listener is
\* removed is referenced by nothing any more
Forget(st) ==
    LET InUse(w) == ~w.settled \/ w.timer \/ w.listening
    IN  [st EXCEPT !.waiters = SelectSeq(@, InUse)]

\* icegatheringstatechange to 'complete': every checkIce still listening runs
IceGatheringComplete(s) ==
    /\ sess[s].local # "none"
    /\ sess[s].gathering = "new"
    /\ Commit(s, Forget(ResolveWaiters([sess[s] EXCEPT !.gathering = "complete"], 1)))
    /\ UNCHANGED <<relayState, toClient>>

\* the waits whose 3 s timer is running
Armed(st) == {i \in DOMAIN st.waiters : st.waiters[i].timer}

\* the 3 s timer of the oldest wait that has one fires: setTimeout(resolve, 3000)
GatherTimeout(s) ==
    /\ Armed(sess[s]) # {}
    /\ LET i == CHOOSE j \in Armed(sess[s]) : \A k \in Armed(sess[s]) : j <= k
       IN  Commit(s, ResolveWait([sess[s] EXCEPT !.waiters[i].timer = FALSE], i))
    /\ UNCHANGED <<relayState, toClient>>

OfflineNext ==
    \E s \in Sess :
        \/ CallCreateOffer(s)
        \/ CallHandleOffer(s)
        \/ CallHandleAnswer(s)
        \/ PcStep(s)
        \/ IceGatheringComplete(s)
        \/ GatherTimeout(s)
        \/ PcConnected(s)
        \/ DcAnnounce(s)
        \/ DcOpen(s)

OfflineSpec == Init /\ [][OfflineNext]_vars

\* the exchange of tokens alone: the calls of the two flows, the peer
\* connection's settling of them and the gathering of candidates
ScanNext ==
    \E s \in Sess :
        \/ CallCreateOffer(s)
        \/ CallHandleOffer(s)
        \/ CallHandleAnswer(s)
        \/ PcStep(s)
        \/ IceGatheringComplete(s)
        \/ GatherTimeout(s)

ScanSpec == Init /\ [][ScanNext]_vars

\* the making of the two tokens
GatherNext ==
    \E s \in Sess :
        \/ CallCreateOffer(s)
        \/ CallHandleOffer(s)
        \/ PcStep(s)
        \/ IceGatheringComplete(s)
        \/ GatherTimeout(s)

\* a timer that is due fires and the peer connection settles every call made
\* on it, but gathering need not complete
GatherSpec ==
    /\ Init /\ [][GatherNext]_vars
    /\ \A s \in Sess : WF_vars(GatherTimeout(s)) /\ WF_vars(PcStep(s))

(* --------------------- joining, with its timers ------------------------- *)
\* a join timer that is due fires (whether or not anything else went wrong)
JoinExpires(s) ==
    /\ \E id \in sess[s].timers : Commit(s, OnJoinTimer(sess[s], id))
    /\ UNCHANGED <<relayState, toClient>>

\* socket.on('connect_error')
ConnectError(s) ==
    /\ sess[s].socket = "connecting"
    /\ Commit(s, Report(sess[s], "error"))
    /\ UNCHANGED <<relayState, toClient>>

\* the 15 s timer of connectSocket: status error, the promise rejects and so
\* does the createRoom or joinRoom awaiting it (handleJoinRoom ends there, with
\* joiningRef still set)
OnConnectTimer(st) ==
    LET st1 == Report([st EXCEPT !.call = "none"], "error")
    IN  IF st.call = "join"
        THEN [st1 EXCEPT !.outcomes = @ \cup {[cause |-> "connect-timeout",
                                               result |-> "rejected",
                                               status |-> st1.status]}]
        ELSE st1

ConnectTimeout(s) ==
    /\ sess[s].socket = "connecting"
    /\ sess[s].call # "none"
    /\ Commit(s, OnConnectTimer(sess[s]))
    /\ UNCHANGED <<relayState, toClient>>

JoinNext ==
    \E s \in Sess :
        \/ CallCreateRoom(s)
        \/ CallJoinRoom(s)
        \/ SocketConnected(s)
        \/ ConnectError(s)
        \/ ConnectTimeout(s)
        \/ RelayHandles(s)
        \/ ClientRecv(s)
        \/ PcStep(s)
        \/ JoinExpires(s)
        \/ SocketDrop(s)

\* the relay may be slow or silent and connections may fail, but a timer that
\* is due does fire
JoinSpec ==
    /\ Init /\ [][JoinNext]_vars
    /\ \A s \in Sess : WF_vars(JoinExpires(s)) /\ WF_vars(ConnectTimeout(s))

\* a run in which nothing goes wrong and every handler that can run does
FairSpec == Init /\ [][NextCore]_vars /\ WF_vars(NextCore)

(* ------------------------ sending files over the channel ---------------- *)
idle == UNCHANGED <<rooms, members, conns, closed, toServer, toClient, joinLog,
                    freed, nreq, nfail, codec, sess>>

SentFrames == LET F(i) == FramesOf(xfer.sends[i].size)
                  RECURSIVE Sum(_)
                  Sum(n) == IF n = 0 THEN 0 ELSE F(n) + Sum(n - 1)
              IN  Sum(Len(xfer.sends))

\* dataChannel.onopen
ChannelOpens ==
    /\ xfer.readyState = "connecting"
    /\ xfer' = [xfer EXCEPT !.readyState = "open"]
    /\ idle

\* dataChannel.onclose
ChannelCloses ==
    /\ xfer.readyState = "open"
    /\ xfer' = [xfer EXCEPT !.readyState = "closed"]
    /\ idle

\* TransferView.handleFileSelect: the user picks a file
SelectFile ==
    /\ xfer.calls + Len(xfer.strays) < MaxSends
    /\ \E size \in FileSizes :
          /\ SentFrames + Len(xfer.strays) + FramesOf(size) <= MaxFrames
          /\ xfer' = sendFile(xfer, size)
    /\ idle

\* the FileReader of send i has read its slice
ReaderLoaded ==
    /\ \E i \in DOMAIN xfer.sends :
          /\ xfer.sends[i].phase = "reading"
          /\ xfer' = readerOnload(xfer, i)
    /\ idle

\* setTimeout(sendNextChunk, 50) of send i fires
RetryTimer ==
    /\ \E i \in DOMAIN xfer.sends :
          /\ xfer.sends[i].phase = "timer"
          /\ xfer' = sendNextChunk(xfer, i)
    /\ idle

\* the transport takes the oldest frame out of the buffer and the peer's
\* dataChannel.onmessage handles it
Deliver ==
    /\ xfer.readyState = "open"
    /\ xfer.buffer # <<>>
    /\ xfer' = handleDataMessage([xfer EXCEPT !.buffer = Tail(@)], Head(xfer.buffer))
    /\ idle

\* a string message of the peer that is not a metadata message arrives, at
\* any point of the stream
DeliverText ==
    /\ xfer.readyState = "open"
    /\ xfer.calls + Len(xfer.strays) < MaxSends
    /\ SentFrames + Len(xfer.strays) < MaxFrames
    /\ \E t \in Texts :
          xfer' = [handleDataMessage(xfer, [type |-> "text", text |-> t])
                      EXCEPT !.strays = Append(@, [text |-> t,
                                                   held |-> Len(xfer.recv.receiveBuffer)])]
    /\ idle

TransferNext ==
    \/ ChannelOpens
    \/ ChannelCloses
    \/ SelectFile
    \/ ReaderLoaded
    \/ RetryTimer
    \/ Deliver
    \/ DeliverText

TransferSpec == Init /\ [][TransferNext]_vars

(* ------------------------------ cancellation ---------------------------- *)
\* the caller of the manager calls disconnect(); the relay sees an open socket
\* go, and the channel the host sends files on is the host's data channel
CallDisconnect(s) ==
    /\ sess[s].nDisconnect < MaxCalls
    /\ sess' = [sess EXCEPT ![s] = [disconnect(sess[s]) EXCEPT !.nDisconnect = @ + 1]]
    /\ IF sess[s].socket = "open" /\ sess'[s].socket # "open"
       THEN Disconnect(s, toClient) /\ Fits(toClient')
       ELSE UNCHANGED <<rooms, members, conns, closed, toServer, toClient, joinLog, freed>>
    /\ xfer' = IF s = HostId /\ sess'[s].dc = "closed"
               THEN [xfer EXCEPT !.readyState = "closed"] ELSE xfer
    /\ UNCHANGED <<nreq, nfail, codec>>

\* a flow starts its session; a manager that was disconnected is not used again
Start(s) ==
    /\ sess[s].nDisconnect = 0
    /\ CallCreateRoom(s) \/ CallJoinRoom(s)

\* dataChannel.onopen of the host's channel
HostChannelOpens ==
    /\ sess[HostId].dc = "open"
    /\ ChannelOpens

\* the user picks the next file when the channel is open and no send is
\* under way
SelectNextFile ==
    /\ xfer.readyState = "open"
    /\ \A i \in DOMAIN xfer.sends : xfer.sends[i].phase \in {"completed", "stopped"}
    /\ SelectFile

\* two sessions pair through the relay, the host sends files, and either
\* session may be disconnected at any point, more than once
CancelNext ==
    \/ \E s \in Sess :
          \/ Start(s)
          \/ SocketConnected(s)
          \/ RelayHandles(s)
          \/ ClientRecv(s)
          \/ PcStep(s)
          \/ PcConnected(s)
          \/ DcAnnounce(s)
          \/ DcOpen(s)
          \/ CallDisconnect(s)
    \/ HostChannelOpens
    \/ SelectNextFile
    \/ ReaderLoaded
    \/ RetryTimer

CancelSpec == Init /\ [][CancelNext]_vars

(* ------------------------- the offline token --------------------------- *)
still == UNCHANGED <<rooms, members, conns, closed, toServer, toClient, joinLog,
                     freed, nreq, nfail, xfer, sess>>

\* a descriptor to encode, or a token that no compressSDP made
CodecInit ==
    /\ Boot
    /\ sess = [s \in Sess |-> NewSession]
    /\ \/ \E d \in Descriptors : codec = [NoCodec EXCEPT !.phase = "descriptor", !.d = d]
       \/ \E t \in BadTokens : codec = [NoCodec EXCEPT !.phase = "scanned", !.token = t]

\* compressSDP(d)
Encode ==
    /\ codec.phase = "descriptor"
    /\ codec' = [codec EXCEPT !.phase = "token", !.token = compressSDP(codec.d)]
    /\ still

\* decompressSDP(token)
Decode ==
    /\ codec.phase \in {"token", "scanned"}
    /\ codec' = [codec EXCEPT !.phase = IF codec.phase = "token" THEN "decoded" ELSE "refused",
                              !.back = decompressSDP(codec.token)]
    /\ still

CodecNext == Encode \/ Decode

CodecSpec == CodecInit /\ [][CodecNext]_vars

(* ---------------------- the relay's room table ------------------------- *)
\* the relay handles the request of type `type` that socket s sent
Handles(s, type) ==
    /\ HasRequest(s, type)
    /\ s \in conns'
    /\ toServer'[s] = Tail(toServer[s])

\* socket s disconnects from the relay
Leaves(s) == s \in conns /\ s \notin conns'

JoinAck(answer) == [type |-> "ack-join", id |-> 1, answer |-> answer]

\* every room but those of `except` is in the table after the step as before
RoomsKept(except) ==
    /\ DOMAIN rooms' \ except = DOMAIN rooms \ except
    /\ \A c \in DOMAIN rooms \ except : rooms'[c] = rooms[c]

RoomShape ==
    /\ DOMAIN rooms \subseteq Codes
    /\ \A c \in DOMAIN rooms :
         /\ rooms[c].host \in Sock
         /\ rooms[c].guest \in Sock \cup {None}

CreateIsFresh ==
    \A s \in Sock :
        Handles(s, "create-room") =>
            \E c \in Codes :
                /\ c \notin DOMAIN rooms
                /\ toClient'[s] = <<[type |-> "ack-create", roomCode |-> c]>>
                /\ c \in DOMAIN rooms'
                /\ rooms'[c] = [host |-> s, guest |-> None]
                /\ RoomsKept({c})

\* C7: every room of the table has exactly one host and at most one guest,
\* and the code create-room returns is the code of no room that is live at
\* that moment: the new room is added and every live room is kept as it was.
C7_RoomTable == []RoomShape /\ [][CreateIsFresh]_vars

\* a room is created while another room is live
C7_Witness == Cardinality(DOMAIN rooms) = 2

\* the number of rooms of s whose other occupant is t
SharedRooms(s, t) ==
    Cardinality({c \in DOMAIN rooms :
        \/ rooms[c].host = s /\ rooms[c].guest = t
        \/ rooms[c].guest = s /\ rooms[c].host = t /\ rooms[c].host # s})

DisconnectDeletes ==
    \A s \in Sock :
        Leaves(s) =>
            /\ \A c \in DOMAIN rooms :
                 (rooms[c].host = s \/ rooms[c].guest = s) => c \notin DOMAIN rooms'
            /\ \A c \in DOMAIN rooms :
                 (rooms[c].host # s /\ rooms[c].guest # s) =>
                     (c \in DOMAIN rooms' /\ rooms'[c] = rooms[c])
            /\ DOMAIN rooms' \subseteq DOMAIN rooms
            /\ \A t \in Sock \ {s} :
                 toClient'[t] = IF t \in conns
                                THEN Repeat([type |-> "peer-disconnected"], SharedRooms(s, t))
                                ELSE <<>>

JoinFreedNotFound ==
    \A s \in Sock :
        (/\ Handles(s, "join-room")
         /\ Head(toServer[s]).roomCode \in freed) =>
            toClient'[s] = <<JoinAck("Room not found")>>

JoinFreedNotRecreatedNotFound ==
    \A s \in Sock :
        (/\ Handles(s, "join-room")
         /\ Head(toServer[s]).roomCode \in freed
         /\ Head(toServer[s]).roomCode \notin DOMAIN rooms) =>
            /\ toClient'[s] = <<JoinAck("Room not found")>>
            /\ rooms' = rooms

\* C8 as stated: the disconnect of an occupant deletes the room in that step
\* and notifies the remaining occupant once, and every later join-room with
\* that code answers `Room not found`.
C8_Original == [][DisconnectDeletes /\ JoinFreedNotFound]_vars

\* C8, amended: the disconnect of an occupant deletes each of its rooms in
\* that step and sends the remaining occupant one `peer-disconnected` per
\* room; a later join-room with that code answers `Room not found` as long
\* as no create-room has put a new room under the same code.
C8_DisconnectDeletesRoom == [][DisconnectDeletes /\ JoinFreedNotRecreatedNotFound]_vars

\* a guest left, its room is gone and the host has been told once
C8_Witness ==
    \E h \in conns, c \in freed :
        /\ c \notin DOMAIN rooms
        /\ closed # {}
        /\ toClient[h] = <<[type |-> "peer-disconnected"]>>

JoinRoomEffect ==
    \A s \in Sock :
        Handles(s, "join-room") =>
            LET c == Head(toServer[s]).roomCode
            IN  IF c \notin DOMAIN rooms
                THEN /\ toClient' = [NoInbox EXCEPT ![s] = <<JoinAck("Room not found")>>]
                     /\ rooms' = rooms
                ELSE IF rooms[c].guest # None
                THEN /\ toClient' = [NoInbox EXCEPT ![s] = <<JoinAck("Room is full")>>]
                     /\ rooms' = rooms
                ELSE /\ rooms'[c] = [host |-> rooms[c].host, guest |-> s]
                     /\ RoomsKept({c})
                     /\ c \in DOMAIN rooms'
                     /\ LET h == rooms[c].host
                        IN  toClient' =
                              IF h = s
                              THEN [NoInbox EXCEPT ![s] =
                                      <<[type |-> "guest-joined"], JoinAck("success")>>]
                              ELSE [NoInbox EXCEPT
                                      ![h] = <<[type |-> "guest-joined"]>>,
                                      ![s] = <<JoinAck("success")>>]

\* C9: join-room answers `Room not found` for a code of no live room and
\* `Room is full` for a room that has a guest, changing no room and notifying
\* nobody; otherwise it makes the caller the room's guest, sends the room's
\* host one `guest-joined` and answers success.
C9_JoinRoom == [][JoinRoomEffect]_vars

\* a join was refused because the room is full
C9_Witness ==
    \E s \in Sock, c \in DOMAIN rooms :
        /\ toClient[s] = <<JoinAck("Room is full")>>
        /\ rooms[c].guest \notin {None, s}

\* C10: of the clients that asked to join one live room, exactly one was
\* answered success and is the room's guest, every other was answered
\* `Room is full`, and the room's host was sent exactly one `guest-joined`.
C10_ConcurrentJoin ==
    \A c \in DOMAIN rooms :
        LET l == joinLog[c]
        IN  /\ Cardinality(l.ok) <= 1
            /\ l.notified = Cardinality(l.ok)
            /\ l.ok = (IF rooms[c].guest = None THEN {} ELSE {rooms[c].guest})
            /\ l.full # {} => l.ok # {}

\* two clients asked to join the same room: one is its guest, the other was refused
C10_Witness ==
    \E c \in DOMAIN rooms, a, b \in conns :
        /\ a # b
        /\ rooms[c].host \notin {a, b}
        /\ joinLog[c].ok = {a}
        /\ joinLog[c].full = {b}
        /\ joinLog[c].notified = 1

(* ------------------- the session's signaling ---------------------------- *)
\* the candidates (by arrival number) that the connection of st has been given
AppliedNumbers(st) == {st.applied[i].n : i \in 1..Len(st.applied)}
\* the candidates st still holds or has handed to the connection's chain
HeldNumbers(st) ==
    {st.pendingCandidates[i].n : i \in 1..Len(st.pendingCandidates)}
    \cup {st.chain[i].arg.n : i \in {j \in 1..Len(st.chain) : st.chain[j].op = "addIce"}}

AppliedOnce(st) ==
    \A i, j \in 1..Len(st.applied) : st.applied[i] = st.applied[j] => i = j
QueuedNotDropped(st) ==
    st.queued \subseteq (AppliedNumbers(st) \cup HeldNumbers(st))
QueuedBeforeLater(st) ==
    \A i, j \in 1..Len(st.applied) :
        i < j /\ st.applied[j].n \in st.queued => st.applied[i].n < st.applied[j].n

\* C1: the ice-candidate signals that reach a session before its remote
\* description is applied are each applied exactly once, none is dropped, and
\* each is applied before any candidate that arrived later than it.
C1_PendingReplayedInOrder ==
    \A s \in Sess :
        AppliedOnce(sess[s]) /\ QueuedNotDropped(sess[s]) /\ QueuedBeforeLater(sess[s])

\* C4: once a session has reported `disconnected` or `failed` it never
\* afterwards reports `connecting` or `connected`.
C4_EndIsTerminal == \A s \in Sess : sess[s].afterEnd = {}

\* C5: after joinRoom has failed on a session, that session never afterwards
\* reports `connecting` or `connected`.
C5_JoinFailureIsTerminal == \A s \in Sess : sess[s].afterJoinFail = {}

\* C2: a session invokes createDataChannel at most once, and its dataChannel
\* field, once set, is never replaced by a different channel.
C2_OneDataChannel ==
    /\ [](\A s \in Sess : sess[s].nChan <= 1)
    /\ [][\A s \in Sess : sess[s].dc # "none" =>
                sess'[s].dataChannel = sess[s].dataChannel]_vars

\* C3: per session the local and the remote description are each set at most
\* once, whatever offers and answers arrive and however often the scanner
\* delivers a token (sessions on which createOffer ran once at most).
C3_DescriptionsSetOnce ==
    \A s \in Sess :
        sess[s].nOffer <= 1 => sess[s].nLocal <= 1 /\ sess[s].nRemote <= 1

Joined == \E c \in DOMAIN rooms : rooms[c].host = HostId /\ rooms[c].guest = GuestId
OfferAnswered ==
    /\ sess[HostId].local = "offer" /\ sess[HostId].remote = "answer"
    /\ sess[GuestId].remote = "offer" /\ sess[GuestId].local = "answer"
BothConnected == \A s \in Sess : sess[s].status = "connected"

\* C6: when a host has created a room and a guest has joined it, nobody
\* disconnects and every ready handler runs, the host sends an offer, the guest
\* applies it and answers, the host applies the answer, and both sessions
\* eventually report `connected`.
C6_HandshakeCompletes == Joined ~> (OfferAnswered /\ BothConnected)
C6_Witness == Joined /\ OfferAnswered /\ BothConnected

(* ------------------------- the relay's signals -------------------------- *)
Occupants(c) == {rooms[c].host, rooms[c].guest} \ {None}

\* the step in which the relay handles signal(c, data) of occupant s (or a
\* signal for a code of no room): one copy for the other occupant, if any
SignalRelayed(distinct) ==
    \A s \in Sock :
        Handles(s, "signal") =>
            LET req == Head(toServer[s])
                c == req.roomCode
                copy == [type |-> "signal", data |-> req.data]
            IN  /\ rooms' = rooms
                /\ c \notin DOMAIN rooms => toClient' = NoInbox
                /\ (/\ c \in DOMAIN rooms /\ s \in Occupants(c)
                    /\ distinct => rooms[c].host # rooms[c].guest) =>
                       IF Occupants(c) \ {s} = {}
                       THEN toClient' = NoInbox
                       ELSE \E t \in Occupants(c) \ {s} :
                                toClient' = [NoInbox EXCEPT ![t] = <<copy>>]

\* C11: a signal of an occupant is delivered unchanged and exactly once to the
\* other occupant of the named room; when the room does not exist or has no
\* other occupant nothing is delivered to anyone and the table is unchanged.
C11_SignalRelay == [][SignalRelayed(FALSE)]_vars

\* the same for the rooms whose host and guest are two different sockets
C11_TwoOccupants == [][SignalRelayed(TRUE)]_vars

(* --------------------------- joinRoom's result --------------------------- *)
JoinPending(s) == sess[s].call = "join" \/ sess[s].unresolved # {}
JoinFailures == {"Room not found", "Room is full", "timeout"}

\* C12: a joinRoom call never hangs: its promise settles, and for an unknown
\* code, a relay that does not answer or a connection that is not established
\* it settles with a failure result.
C12_JoinSettles ==
    /\ \A s \in Sess : JoinPending(s) ~> ~JoinPending(s)
    /\ [](\A s \in Sess : \A o \in sess[s].outcomes :
              o.cause # "success" => o.result # "true")
\* one session has seen a join refused for an unknown code and a join time out
C12_Witness ==
    \E s \in Sess :
        {"Room not found", "timeout"} \subseteq {o.cause : o \in sess[s].outcomes}

\* C13: what the caller of joinRoom observes (the result and the status) is
\* different for room-not-found, room-full and join-timeout.
C13_FailuresDistinguished ==
    \A s \in Sess : \A o1, o2 \in sess[s].outcomes :
        (o1.cause \in JoinFailures /\ o2.cause \in JoinFailures /\ o1.cause # o2.cause)
            => <<o1.result, o1.status>> # <<o2.result, o2.status>>

(* ----------------------------- file transfer ---------------------------- *)
\* the name of the metadata message that governs position p of the wire
GoverningFile(p) ==
    LET before == {q \in 1..p : xfer.sent[q].type = "metadata"}
    IN  IF before = {} THEN 0
        ELSE xfer.sent[CHOOSE q \in before : \A r \in before : r <= q].name

\* no frame of another send lies among the frames of send i
Alone(i) ==
    \A p \in DOMAIN xfer.sent :
        xfer.sent[p].type = "chunk" => (xfer.sent[p].file = i <=> GoverningFile(p) = i)

ArtifactsOf(i) == {k \in DOMAIN xfer.artifacts : xfer.artifacts[k].name = i}

RECURSIVE PartsFrom(_, _, _)
\* the parts are the bytes of file i from offset on, in order, with no gap
PartsFrom(parts, i, offset) ==
    \/ parts = <<>>
    \/ /\ Head(parts).file = i
       /\ Head(parts).from = offset
       /\ PartsFrom(Tail(parts), i, offset + Head(parts).len)

\* the artifact is file i: its name, its length and its bytes
Faithful(a, i) ==
    /\ a.name = i
    /\ TotalBytes(a.parts) = xfer.sends[i].size
    /\ PartsFrom(a.parts, i, 0)

Arrived(i) ==
    /\ xfer.sends[i].phase = "completed"
    /\ xfer.readyState = "open"
    /\ xfer.buffer = <<>>

\* C14: a non-empty file sent alone over the open channel arrives as exactly
\* one artifact, with the announced name, the file's length and the file's bytes
\* in order; before that the receiver has emitted nothing under that name.
C14_FileArrivesIntact ==
    \A i \in DOMAIN xfer.sends :
        (xfer.sends[i].size > 0 /\ Alone(i)) =>
            /\ Cardinality(ArtifactsOf(i)) <= 1
            /\ \A k \in ArtifactsOf(i) : Faithful(xfer.artifacts[k], i)
            /\ Arrived(i) => Cardinality(ArtifactsOf(i)) = 1

C14_Witness ==
    \E i \in DOMAIN xfer.sends :
        /\ xfer.sends[i].size = LargeFile
        /\ Alone(i)
        /\ Arrived(i)
        /\ \E k \in ArtifactsOf(i) : Faithful(xfer.artifacts[k], i)

\* the receiver has handled the metadata message of send i
MetadataHandled(i) ==
    \E p \in DOMAIN xfer.sent :
        /\ xfer.sent[p].type = "metadata"
        /\ xfer.sent[p].name = i
        /\ p <= Len(xfer.sent) - Len(xfer.buffer)

\* C15: once the receiver has handled the metadata of an empty file it has
\* emitted a zero-length artifact with the announced name.
C15_EmptyFileArrives ==
    \A i \in DOMAIN xfer.sends :
        (xfer.sends[i].size = 0 /\ MetadataHandled(i)) =>
            \E k \in ArtifactsOf(i) : xfer.artifacts[k].parts = <<>>

\* C16: every artifact the receiver emits has exactly the length its metadata
\* declared, and no metadata message gets a second artifact.
C16_NoExcessBytes ==
    /\ \A k \in DOMAIN xfer.artifacts :
          TotalBytes(xfer.artifacts[k].parts) = xfer.artifacts[k].declared
    /\ \A i \in DOMAIN xfer.sends : Cardinality(ArtifactsOf(i)) <= 1

\* this step hands a binary chunk to the data channel
ChunkHanded ==
    /\ Len(xfer'.sent) = Len(xfer.sent) + 1
    /\ xfer'.sent[Len(xfer'.sent)].type = "chunk"

\* C17: a chunk is handed to the data channel only at a moment when
\* bufferedAmount is below the high-water mark of 1 MiB.
C17_SendsBelowHighWater ==
    [][ChunkHanded => bufferedAmount(xfer) < HighWater]_vars

InFlight == {i \in DOMAIN xfer.sends : xfer.sends[i].phase \in {"reading", "timer"}}

\* C18: at most one send is in flight, and the frames of two files are never
\* interleaved on the data channel.
C18_OneSendInFlight ==
    /\ Cardinality(InFlight) <= 1
    /\ \A i \in DOMAIN xfer.sends : Alone(i)

\* the frames send i has handed to the channel, in order
WireOf(i) ==
    LET Mine(f) == IF f.type = "metadata" THEN f.name = i ELSE f.file = i
    IN  SelectSeq(xfer.sent, Mine)

\* C19: the frames of one send are its metadata message, once, and then its
\* chunks in increasing offset with no gap, each of 16384 bytes except a
\* shorter last one; when the send has completed their lengths sum to the size.
C19_WireFormat ==
    \A i \in DOMAIN xfer.sends :
        LET w      == WireOf(i)
            chunks == Tail(w)
            S      == xfer.sends[i].size
        IN  /\ w # <<>>
            /\ Head(w) = Metadata(i, S)
            /\ \A k \in DOMAIN chunks :
                  /\ chunks[k].type = "chunk"
                  /\ chunks[k].from = (k - 1) * chunkSize
                  /\ chunks[k].len > 0
                  /\ chunks[k].from + chunks[k].len <= S
                  /\ chunks[k].len = chunkSize \/ chunks[k].from + chunks[k].len = S
            /\ xfer.sends[i].phase = "completed" => TotalBytes(chunks) = S

C19_Witness ==
    \E i \in DOMAIN xfer.sends :
        /\ xfer.sends[i].size = chunkSize + 1
        /\ xfer.sends[i].phase = "completed"
        /\ Len(WireOf(i)) = 3

\* a <= b for two progress values
NoMore(a, b) ==
    IF a.den = b.den THEN a.num <= b.num
    ELSE IF b.num >= b.den THEN a.num <= a.den
    ELSE IF a.num >= a.den THEN FALSE
    ELSE a.num * b.den <= b.num * a.den

\* C20: the progress reports of one send never decrease and never exceed 100;
\* completed is reported with 100 after every sending report, once when
\* the send has reached the end of the file and never more than once.
C20_SendProgress ==
    \A i \in DOMAIN xfer.sends :
        LET r    == xfer.sends[i].reports
            done == {k \in DOMAIN r : r[k].status = "completed"}
        IN  /\ \A k \in DOMAIN r : r[k].pct.num <= r[k].pct.den
            /\ \A k, l \in DOMAIN r : k < l => NoMore(r[k].pct, r[l].pct)
            /\ Cardinality(done) <= 1
            /\ \A k \in done : k = Len(r) /\ r[k].pct.num = r[k].pct.den
            /\ xfer.sends[i].phase = "completed" <=> done # {}

C20_Witness ==
    \E i \in DOMAIN xfer.sends :
        /\ xfer.sends[i].size = LargeFile
        /\ xfer.sends[i].phase = "completed"
        /\ Len(xfer.sends[i].reports) = FramesOf(LargeFile)

\* this step makes the completed report of send i
CompletedNow(i) ==
    /\ i \in DOMAIN xfer'.sends
    /\ xfer'.sends[i].phase = "completed"
    /\ i \in DOMAIN xfer.sends => xfer.sends[i].phase # "completed"

\* C21: at the moment a send reports completed, no chunk of its file is still
\* in the channel's send buffer.
C21_CompletedWhenFlushed ==
    [][\A i \in 1..MaxSends :
          CompletedNow(i) =>
              \A p \in DOMAIN xfer'.buffer :
                  xfer'.buffer[p].type = "chunk" => xfer'.buffer[p].file # i]_vars

\* C22: the progress reports of one receive, from its metadata message to
\* its artifact, never decrease, never exceed 100, and are 100 exactly when
\* the bytes received equal the declared size.
C22_ReceiveProgress ==
    LET r      == xfer.recv.reports
        during == {k \in DOMAIN r : ~r[k].late}
    IN  /\ \A k \in during : r[k].pct.num <= r[k].pct.den
        /\ \A k, l \in during : k < l => NoMore(r[k].pct, r[l].pct)
        /\ \A k \in during : r[k].pct.num = r[k].pct.den <=> r[k].received = r[k].declared

\* this step handles a string message that is not a metadata message
TextHandled == Len(xfer'.strays) = Len(xfer.strays) + 1

\* C23: a string message that is not JSON, or whose type is not metadata,
\* leaves the receive state, the artifacts and the channel as they were.
C23_MalformedControlIgnored ==
    [][TextHandled =>
          /\ xfer'.recv = xfer.recv
          /\ xfer'.artifacts = xfer.artifacts
          /\ xfer'.readyState = xfer.readyState
          /\ xfer'.buffer = xfer.buffer]_vars

\* such a message arrived between the chunks of a file that then arrived whole
C23_Witness ==
    /\ \E k \in DOMAIN xfer.strays : xfer.strays[k].held > 0
    /\ \E i \in DOMAIN xfer.sends :
          /\ Arrived(i)
          /\ \E k \in ArtifactsOf(i) : Faithful(xfer.artifacts[k], i)

\* the number of frames the receiver has handled
Handled == Len(xfer.sent) - Len(xfer.buffer)

\* the position of the last metadata message among the first n frames
LastMetadata(n) ==
    LET before == {q \in 1..n : xfer.sent[q].type = "metadata"}
    IN  IF before = {} THEN 0 ELSE CHOOSE q \in before : \A r \in before : r <= q

\* the metadata message at position m was replaced by a later one before its
\* transfer was complete
Abandoned(m) ==
    /\ m \in 1..Handled
    /\ xfer.sent[m].type = "metadata"
    /\ \E n \in (m + 1)..Handled :
          /\ xfer.sent[n].type = "metadata"
          /\ \A k \in DOMAIN xfer.artifacts : ~(m < xfer.artifacts[k].at /\ xfer.artifacts[k].at < n)

\* C24: a metadata message resets the receive record: every artifact and the
\* buffer hold only frames that arrived after the last metadata message before
\* them, an artifact bears the name that message announced, and a transfer that
\* a new metadata message replaced gets no artifact.
C24_MetadataResets ==
    /\ Len(xfer.recv.receiveBuffer) <= Handled - LastMetadata(Handled)
    /\ xfer.recv.receiveBuffer =
          SubSeq(xfer.sent, Handled - Len(xfer.recv.receiveBuffer) + 1, Handled)
    /\ xfer.recv.receiveBuffer = <<>> /\ ~xfer.recv.emitted => xfer.recv.receivedSize = 0
    /\ \A k \in DOMAIN xfer.artifacts :
          LET a == xfer.artifacts[k]
              m == LastMetadata(a.at)
          IN  /\ m > 0
              /\ a.name = xfer.sent[m].name
              /\ Len(a.parts) <= a.at - m
              /\ a.parts = SubSeq(xfer.sent, a.at - Len(a.parts) + 1, a.at)
    /\ \A m \in 1..Handled :
          Abandoned(m) => \A k \in DOMAIN xfer.artifacts : xfer.artifacts[k].name # xfer.sent[m].name

\* a metadata message arrived after a chunk of an unfinished transfer, and an
\* artifact was emitted later
C24_Witness ==
    \E n \in 2..Handled :
        /\ xfer.sent[n].type = "metadata"
        /\ xfer.sent[n - 1].type = "chunk"
        /\ Abandoned(LastMetadata(n - 1))
        /\ \E k \in DOMAIN xfer.artifacts : xfer.artifacts[k].at > n

\* C30: receivedSize is the sum of the byte lengths of the chunks in
\* receiveBuffer, in every state of the receiver.
C30_ReceivedSizeIsBufferSum ==
    xfer.recv.receivedSize = TotalBytes(xfer.recv.receiveBuffer)

(* ----------------------------- offline tokens --------------------------- *)
\* C26: decompressSDP(compressSDP(d)) is d, for every descriptor d.
C26_TokenRoundTrip ==
    codec.phase = "decoded" => codec.back.ok /\ codec.back.value = codec.d

\* a descriptor whose SDP has a quote, a backslash or a line end came back
C26_Witness ==
    /\ codec.phase = "decoded"
    /\ codec.back.ok
    /\ Len(codec.d.sdp) = MaxSdp
    /\ \E i \in DOMAIN codec.d.sdp : codec.d.sdp[i] \in {"\"", "\\", "\n"}

\* this step is a handleOffer or handleAnswer of s that threw on its token
DecodeError(s) == sess'[s].nDecodeError = sess[s].nDecodeError + 1

\* C27: handleOffer and handleAnswer given a token that is not base64 or does
\* not decompress throw before anything is applied: the session is as it was
\* (but for the count of scans), so a later valid token is handled as on a
\* session that never saw the malformed one.
C27_MalformedTokenRejected ==
    [][\A s \in Sess :
          /\ DecodeError(s) =>
                sess'[s] = [sess[s] EXCEPT !.nScan = @ + 1, !.nDecodeError = @ + 1]
          /\ sess'[s].nScan = sess[s].nScan + 1 /\ ~DecodeError(s) =>
                Len(sess'[s].chain) = Len(sess[s].chain) + 1]_vars

\* after a malformed token the guest has handled the host's offer and
\* returned its answer token
C27_Witness ==
    /\ sess[GuestId].nDecodeError > 0
    /\ sess[GuestId].remote = "offer"
    /\ sess[GuestId].token # <<>>

(* --------------------------- the session's events ------------------------ *)
\* this step starts the handler of a signaling event delivered to s
HandlerStarts(s) ==
    /\ toClient[s] # <<>>
    /\ Head(toClient[s]).type \in {"signal", "guest-joined"}
    /\ toClient'[s] = Tail(toClient[s])
    /\ sess[s].socket = "open"
    /\ sess'[s].socket = "open"

\* C28: the handler of a signaling event starts only when no earlier handler
\* of the session is still waiting at one of its awaits.
C28_HandlersRunToCompletion ==
    [][\A s \in Sess : HandlerStarts(s) => sess[s].chain = <<>>]_vars

\* C29: the queue of pending candidates is empty whenever a remote description
\* is set.
C29_PendingOnlyBeforeRemote ==
    \A s \in Sess : sess[s].remote # "none" => sess[s].pendingCandidates = <<>>

(* ------------------------------- disconnect ------------------------------ *)
\* this step is a call of disconnect() on session s
DisconnectCalled(s) == sess'[s].nDisconnect = sess[s].nDisconnect + 1

\* the relay connection of s is released, its data channel and its peer
\* connection are closed
TornDown(s) ==
    /\ sess'[s].socket \in {"none", "closed"}
    /\ s \notin conns'
    /\ sess'[s].dc \in {"none", "closed"}
    /\ sess'[s].conn = "closed"
    /\ s = HostId => xfer'.readyState # "open"

\* C25: disconnect(), called in any state of the session and any number of
\* times, leaves the relay connection released, the data channel closed and
\* the peer connection closed; a second call changes nothing; and once the
\* sender has called it no further frame is handed to the channel.
C25_DisconnectIdempotent ==
    [][/\ \A s \in Sess :
            DisconnectCalled(s) =>
              /\ TornDown(s)
              /\ sess[s].nDisconnect > 0 =>
                    /\ sess'[s] = [sess[s] EXCEPT !.nDisconnect = @ + 1]
                    /\ UNCHANGED <<rooms, members, conns, closed, toServer, toClient,
                                   joinLog, freed, xfer>>
       /\ sess[HostId].nDisconnect > 0 => xfer'.sent = xfer.sent]_vars

\* the host has called disconnect() twice and a send that had handed chunks
\* to the channel stopped before the end of its file
C25_Witness ==
    /\ sess[HostId].nDisconnect = 2
    /\ \E i \in DOMAIN xfer.sends :
          /\ xfer.sends[i].phase = "stopped"
          /\ xfer.sends[i].offset > 0
          /\ xfer.sends[i].offset < xfer.sends[i].size

(* -------------------------- the receiver's reset ------------------------- *)
\* the fields of the receive record that a transfer fills in
ReceiveState(rc) ==
    [expectedSize |-> rc.expectedSize, expectedName |-> rc.expectedName,
     receiveBuffer |-> rc.receiveBuffer, receivedSize |-> rc.receivedSize]

\* C31: once the receiver has emitted an artifact, and until the next metadata
\* message, its chunk buffer is empty, its byte count is 0 and its receive
\* state is the one it had before any metadata.
C31_ResetAfterArtifact ==
    xfer.recv.emitted => ReceiveState(xfer.recv) = ReceiveState(NewReceiver)

(* ----------------------- a candidate that fails to apply ----------------- *)
\* C32: a session that was given a candidate it could not apply, once its
\* handlers have run, holds no queued candidate and, if it was sent an offer,
\* has set and transmitted its answer.
C32_BadCandidateAbsorbed ==
    \A s \in Sess :
        (/\ sess[s].nApplyFailed > 0
         /\ sess[s].remote # "none"
         /\ sess[s].chain = <<>>) =>
            /\ sess[s].pendingCandidates = <<>>
            /\ sess[s].remote = "offer" => sess[s].local = "answer"

(* --------------------------- the gathering wait -------------------------- *)
\* C33: every wait for ICE gathering ends, by the completion of gathering or
\* by its 3 s timer, and its caller goes on exactly once; so createOffer
\* returns a token, and so does handleOffer of a token that decodes, even
\* if gathering never completes.
C33_GatheringWaitBounded ==
    /\ [](\A s \in Sess : \A i \in DOMAIN sess[s].waiters :
             /\ sess[s].waiters[i].returns <= 1
             /\ sess[s].waiters[i].settled <=> sess[s].waiters[i].returns = 1)
    /\ \A s \in Sess :
          []<>(\A i \in DOMAIN sess[s].waiters : sess[s].waiters[i].returns = 1)
    /\ (sess[HostId].nOffer > 0) ~> (sess[HostId].token # <<>>)
    /\ (sess[GuestId].nScan > sess[GuestId].nDecodeError) ~> (sess[GuestId].token # <<>>)

\* a wait ended by its timer: its caller has returned the token while
\* gathering is not complete and its listener is still registered
C33_Witness ==
    \E s \in Sess : \E i \in DOMAIN sess[s].waiters :
        /\ sess[s].gathering = "new"
        /\ sess[s].waiters[i].returns = 1
        /\ sess[s].waiters[i].listening
        /\ sess[s].token # <<>>

(* ------------------------- signals of outsiders -------------------------- *)
\* C34: a signal that names a room and is sent by a connection that is
\* neither the host nor the guest of that room is delivered to nobody.
C34_OutsiderSignalDropped ==
    [][\A s \in Sock :
          (/\ Handles(s, "signal")
           /\ Head(toServer[s]).roomCode \in DOMAIN rooms
           /\ s \notin Occupants(Head(toServer[s]).roomCode)) =>
                toClient' = NoInbox]_vars

(* ----------------------------- orphaned rooms ---------------------------- *)
\* C35: the host and the guest, if any, of every room in the table are
\* connected clients.
C35_NoOrphanedRoom ==
    \A c \in DOMAIN rooms : Occupants(c) \subseteq conns

\* a room was deleted by its host's disconnect while another room, with both
\* its occupants connected, stays in the table
C35_Witness ==
    /\ closed # {}
    /\ freed # {}
    /\ \E c \in DOMAIN rooms : rooms[c].guest # None /\ rooms[c].guest # rooms[c].host

(* --------------------------- completed, honestly ------------------------- *)
RECURSIVE BytesOf(_, _)
\* the bytes of file i among the frames q
BytesOf(q, i) ==
    IF q = <<>> THEN 0
    ELSE (IF Head(q).type = "chunk" /\ Head(q).file = i THEN Head(q).len ELSE 0)
         + BytesOf(Tail(q), i)

\* this step is a call of sendFile
SendFileCalled == xfer'.calls = xfer.calls + 1

\* C36: completed is reported for a send only when every byte of its file has
\* been handed to the channel and the channel has not closed during the send;
\* a sendFile called while the channel is not open sends nothing and reports
\* nothing; once the channel has closed no further frame is handed to it.
C36_CompletedOnlyIfSent ==
    [][/\ \A i \in 1..MaxSends :
            CompletedNow(i) =>
                /\ BytesOf(xfer'.sent, i) = xfer'.sends[i].size
                /\ xfer.readyState = "open"
       /\ (SendFileCalled /\ xfer.readyState # "open") =>
                xfer' = [xfer EXCEPT !.calls = @ + 1]
       /\ xfer.readyState = "closed" => xfer'.sent = xfer.sent]_vars

====
